---- MODULE Spec2Model ----
(***************************************************************************)
(* A model of the passerine VM core: the NaN-tagged cell of vm/tag.rs and  *)
(* the frame-structured stack of vm/stack.rs.                              *)
(*                                                                         *)
(* A 64-bit word is a tuple of four 16-bit limbs, most significant first,  *)
(* so that the constants of tag.rs keep their exact bit patterns.          *)
(***************************************************************************)
EXTENDS Integers, Sequences, FiniteSets, TLC

VARIABLES
    tagged,     \* tag.rs: the Tagged cells created so far, [bits, live, src]
    heap,       \* tag.rs: the boxes made by Box::new, [val, frees, owner]
    out,        \* tag.rs: the Data returned by the last data() / copy()
    tstatus,    \* tag.rs: "running", or "aborted" after a panic / allocator abort
    tlast,      \* tag.rs: the last operation, [op, c]
    frames,     \* stack.rs: Stack::frames, the 0-based index of each frame's marker
    stack,      \* stack.rs: Stack::stack, the cells, bottom first
    refs,       \* stack.rs: the referent of each Rc<RefCell<Data>> made by heapify
    ret,        \* stack.rs: what the last operation returned, as a Slot
    status,     \* stack.rs: "running", or "aborted" after a panic
    last,       \* stack.rs: the last operation, [op, i], and the length the
                \* stack had when it was called, len
    snap,       \* history: the stack and frames before the push_data that came last
    calls,      \* history: for each open push_frame, [c, len, nframes] at the call
    scen,       \* history: progress through heapify(i), local_data(i)..., push_data(b),
                \* set_local(i), local_data(i), with what the reads returned
    tokens,     \* parse.rs: the token vector handed to parse, as token kinds
    parsed,     \* parse.rs: what parse(tokens) came to: Ok, Err, or a panic
    alt,        \* parse.rs: a rule list and what first(tokens, rules) came to
    called      \* parse.rs: what call(tokens) came to

tagVars == <<tagged, heap, out, tstatus, tlast>>

stackVars == <<frames, stack, refs, ret, status, last, snap, calls, scen>>

parseVars == <<tokens, parsed, alt, called>>

vars == <<tagged, heap, out, tstatus, tlast,
          frames, stack, refs, ret, status, last, snap, calls, scen,
          tokens, parsed, alt, called>>

-----------------------------------------------------------------------------
(* Bounds                                                                  *)

MaxCells == 2

MaxStack == 3

MaxRefs == 2

MaxTokens == 4

MaxAltTokens == 3

-----------------------------------------------------------------------------
(* 64-bit words                                                            *)

RECURSIVE AndBits(_, _, _)
AndBits(a, b, n) ==
    IF n = 0 \/ a = 0 \/ b = 0 THEN 0
    ELSE ((a % 2) * (b % 2)) + 2 * AndBits(a \div 2, b \div 2, n - 1)

RECURSIVE OrBits(_, _, _)
OrBits(a, b, n) ==
    IF n = 0 THEN 0
    ELSE IF a = 0 THEN b
    ELSE IF b = 0 THEN a
    ELSE (IF (a % 2) + (b % 2) > 0 THEN 1 ELSE 0)
         + 2 * OrBits(a \div 2, b \div 2, n - 1)

And64(x, y) == [i \in 1..4 |-> AndBits(x[i], y[i], 16)]

Or64(x, y) == [i \in 1..4 |-> OrBits(x[i], y[i], 16)]

Zero64 == <<0, 0, 0, 0>>

\* const QNAN: u64 = 0x7ffe_0000_0000_0000
QNAN == <<32766, 0, 0, 0>>

\* const P_FLAG: u64 = 0x8000_0000_0000_0000
P_FLAG == <<32768, 0, 0, 0>>

\* const P_MASK: u64 = 0x0000_FFFF_FFFF_FFFF
P_MASK == <<0, 65535, 65535, 65535>>

\* const U_FLAG: u64 = 0x0000_0000_0000_0000
U_FLAG == <<0, 0, 0, 0>>

\* const F_FLAG: u64 = 0x0000_0000_0000_0010
F_FLAG == <<0, 0, 0, 16>>

\* const T_FLAG: u64 = 0x0000_0000_0000_0011
T_FLAG == <<0, 0, 0, 17>>

-----------------------------------------------------------------------------
(* Data: one record shape for every variant                                *)

Unit == [t |-> "Unit", w |-> Zero64, b |-> FALSE, s |-> "", r |-> 0]

Real(w) == [Unit EXCEPT !.t = "Real", !.w = w]

Boolean(b) == [Unit EXCEPT !.t = "Boolean", !.b = b]

Str(s) == [Unit EXCEPT !.t = "String", !.s = s]

Heaped(r) == [Unit EXCEPT !.t = "Heaped", !.r = r]

FrameData == [Unit EXCEPT !.t = "Frame"]

\* what a read through a dangling or wild pointer may yield
Garbage == [Unit EXCEPT !.t = "Garbage"]

\* no value: the operation returned nothing, or did not return
NoData == [Unit EXCEPT !.t = "None"]

\* f64::is_nan on the bit pattern: exponent all ones, mantissa non-zero
IsNaNBits(w) ==
    /\ AndBits(w[1], 32752, 16) = 32752
    /\ \/ AndBits(w[1], 15, 16) # 0
       \/ w[2] # 0
       \/ w[3] # 0
       \/ w[4] # 0

IsNaN(d) == d.t = "Real" /\ IsNaNBits(d.w)

\* +0.0 and -0.0
IsZeroBits(w) == AndBits(w[1], 32767, 16) = 0 /\ w[2] = 0 /\ w[3] = 0 /\ w[4] = 0

\* PartialEq of Data: f64 equality on reals (NaN equals nothing, 0.0 == -0.0)
DataEq(x, y) ==
    IF x.t = "Real" /\ y.t = "Real"
    THEN /\ ~IsNaNBits(x.w)
         /\ ~IsNaNBits(y.w)
         /\ (x.w = y.w \/ (IsZeroBits(x.w) /\ IsZeroBits(y.w)))
    ELSE x = y /\ x.t \notin {"Garbage", "None"}

-----------------------------------------------------------------------------
(* vm/tag.rs                                                               *)

\* the address Box::new returns for the k-th box (8-byte aligned)
BoxAddr(k) == <<0, 0, 0, 8 * k>>

\* the box a 48-bit pointer refers to, 0 when it refers to none
BoxAt(p, h) ==
    IF /\ p[1] = 0
       /\ p[2] = 0
       /\ p[3] = 0
       /\ p[4] % 8 = 0
       /\ (p[4] \div 8) \in 1..Len(h)
    THEN p[4] \div 8
    ELSE 0

\* the variants Tagged::new stores inline
Inline(d) == d.t \in {"Real", "Unit", "Boolean"}

\* a cell that keeps its tag in a limb of its own beside the payload word
TaggedNewWide(d, addr) ==
    <<IF Inline(d) THEN 0 ELSE 1>> \o (IF d.t = "Real" THEN d.w ELSE addr)

\* Tagged::new: the bit pattern of the cell; addr is the box of a boxed value
TaggedNew(d, addr) ==
    CASE d.t = "Real" -> d.w
      [] d.t = "Unit" -> Or64(QNAN, U_FLAG)
      [] d.t = "Boolean" /\ ~d.b -> Or64(QNAN, F_FLAG)
      [] d.t = "Boolean" /\ d.b -> Or64(QNAN, T_FLAG)
      [] OTHER -> Or64(Or64(P_FLAG, QNAN), And64(P_MASK, addr))

\* Tagged::extract: Ok(data), Err(box at p), or the unreachable!() panic
Extract(bits) ==
    IF And64(bits, QNAN) # QNAN
    THEN [k |-> "ok", d |-> Real(bits), p |-> Zero64]
    ELSE IF bits = Or64(QNAN, U_FLAG)
    THEN [k |-> "ok", d |-> Unit, p |-> Zero64]
    ELSE IF bits = Or64(QNAN, F_FLAG)
    THEN [k |-> "ok", d |-> Boolean(FALSE), p |-> Zero64]
    ELSE IF bits = Or64(QNAN, T_FLAG)
    THEN [k |-> "ok", d |-> Boolean(TRUE), p |-> Zero64]
    ELSE IF And64(bits, P_FLAG) = P_FLAG
    THEN [k |-> "ptr", d |-> NoData, p |-> And64(bits, P_MASK)]
    ELSE [k |-> "corrupt", d |-> NoData, p |-> Zero64]

\* mem::size_of::<Tagged>() of a cell: the bytes of its 16-bit limbs
SizeOfBits(w) == 2 * Len(w)

\* mem::size_of::<f64>()
SizeOfF64 == 8

\* the variants of Data
DataVariants == {"Unit", "Real", "Boolean", "String", "Heaped", "Frame"}

\* the bytes of each variant's payload on a 64-bit target: an f64, a bool,
\* a String (pointer, capacity, length), an Rc pointer
PayloadSize(t) ==
    CASE t = "Real" -> 8
      [] t = "Boolean" -> 1
      [] t = "String" -> 24
      [] t = "Heaped" -> 8
      [] OTHER -> 0

\* the bytes rustc may spend on the discriminant of Data: none when it finds
\* a niche in the String, otherwise one, padded to the alignment
DiscriminantSizes == {0, 1}

\* mem::size_of::<Data>(): the largest payload and the discriminant, rounded
\* up to the alignment of 8
SizeOfData(disc) ==
    LET largest == CHOOSE m \in {PayloadSize(t) : t \in DataVariants} :
                       \A t \in DataVariants : PayloadSize(t) <= m
    IN  ((largest + disc + 7) \div 8) * 8

\* a String with a non-empty buffer owns a second allocation
OwnsBuffer(d) == d.t = "String" /\ d.s # ""

\* the Data values handed to Tagged::new
RealBits ==
    { <<0, 0, 0, 0>>,                 \* 0.0
      <<16392, 0, 0, 0>>,             \* 3.0
      <<49261, 57344, 0, 0>>,         \* -231.0
      <<32752, 0, 0, 0>>,             \* f64::INFINITY
      <<65520, 0, 0, 0>>,             \* f64::NEG_INFINITY
      <<32760, 0, 0, 0>>,             \* f64::NAN
      <<65528, 0, 0, 0>>,             \* the NaN x86 arithmetic produces
      <<32752, 0, 0, 1>>,             \* a signalling NaN
      <<32766, 0, 0, 0>>,             \* NaN, payload 0x7ffe_0000_0000_0000
      <<32766, 0, 0, 16>>,            \* NaN, payload ..._0010
      <<32766, 0, 0, 1>>,             \* NaN, payload ..._0001
      <<65534, 0, 0, 8>> }            \* NaN, sign set, payload ..._0008

TagInputs ==
    {Real(w) : w \in RealBits}
        \cup {Unit, Boolean(TRUE), Boolean(FALSE), Str(""), Str("ab"), FrameData}

\* let wrapped = Tagged::new(data)
TagNew(d) ==
    /\ tstatus = "running"
    /\ UNCHANGED <<stackVars, parseVars>>
    /\ Len(tagged) < MaxCells
    /\ LET c == Len(tagged) + 1
           k == Len(heap) + 1
       IN  /\ tagged' = Append(tagged,
                  [bits |-> TaggedNew(d, BoxAddr(k)), live |-> TRUE, src |-> d])
           /\ heap' = IF Inline(d) THEN heap
                      ELSE Append(heap, [val |-> d, frees |-> 0, owner |-> c])
           /\ tlast' = [op |-> "new", c |-> c]
    /\ out' = NoData
    /\ UNCHANGED tstatus

\* the process dies: a panic, or the allocator detecting the corruption
TagAbort ==
    /\ tstatus' = "aborted"
    /\ out' = NoData

\* the operation returns d
TagReturn(d) ==
    /\ tstatus' = "running"
    /\ out' = d

\* wrapped.data(): extract() rebuilds the box and *boxed moves the value out
\* and frees it; then self goes out of scope and Drop::drop runs extract()
\* on the same bits and frees the same box again (undefined behaviour)
TagData(c) ==
    /\ tstatus = "running"
    /\ UNCHANGED <<stackVars, parseVars>>
    /\ c \in 1..Len(tagged)
    /\ tagged[c].live
    /\ tagged' = [tagged EXCEPT ![c].live = FALSE]
    /\ tlast' = [op |-> "data", c |-> c]
    /\ LET e == Extract(tagged[c].bits)
           k == BoxAt(e.p, heap)
       IN  CASE e.k = "ok" -> TagReturn(e.d) /\ UNCHANGED heap
             [] e.k = "corrupt" -> TagAbort /\ UNCHANGED heap
             [] e.k = "ptr" /\ k = 0 ->
                    /\ UNCHANGED heap
                    /\ \/ TagAbort
                       \/ TagReturn(Garbage)
             [] e.k = "ptr" /\ k # 0 ->
                    /\ heap' = [heap EXCEPT ![k].frees = @ + 2]
                    /\ \/ TagAbort
                       \/ TagReturn(heap[k].val)
                       \/ /\ OwnsBuffer(heap[k].val) \/ heap[k].frees > 0
                          /\ TagReturn(Garbage)

\* wrapped.copy(): extract(), clone the payload, mem::forget the box
TagCopy(c) ==
    /\ tstatus = "running"
    /\ UNCHANGED <<stackVars, parseVars>>
    /\ c \in 1..Len(tagged)
    /\ tagged[c].live
    /\ tlast' = [op |-> "copy", c |-> c]
    /\ UNCHANGED <<tagged, heap>>
    /\ LET e == Extract(tagged[c].bits)
           k == BoxAt(e.p, heap)
       IN  CASE e.k = "ok" -> TagReturn(e.d)
             [] e.k = "corrupt" -> TagAbort
             [] e.k = "ptr" /\ k # 0 /\ heap[k].frees = 0 -> TagReturn(heap[k].val)
             [] OTHER -> TagAbort \/ TagReturn(Garbage)

\* impl Drop for Tagged: the cell goes out of scope without being consumed
TagDrop(c) ==
    /\ tstatus = "running"
    /\ UNCHANGED <<stackVars, parseVars>>
    /\ c \in 1..Len(tagged)
    /\ tagged[c].live
    /\ tagged' = [tagged EXCEPT ![c].live = FALSE]
    /\ tlast' = [op |-> "drop", c |-> c]
    /\ LET e == Extract(tagged[c].bits)
           k == BoxAt(e.p, heap)
       IN  CASE e.k = "ok" -> TagReturn(NoData) /\ UNCHANGED heap
             [] e.k = "corrupt" -> TagAbort /\ UNCHANGED heap
             [] e.k = "ptr" /\ k = 0 ->
                    /\ UNCHANGED heap
                    /\ TagAbort \/ TagReturn(NoData)
             [] e.k = "ptr" /\ k # 0 ->
                    /\ heap' = [heap EXCEPT ![k].frees = @ + 1]
                    /\ \/ TagReturn(NoData)
                       \/ heap[k].frees > 0 /\ TagAbort

TagNext ==
    \/ \E d \in TagInputs : TagNew(d)
    \/ \E c \in 1..MaxCells : TagData(c)
    \/ \E c \in 1..MaxCells : TagCopy(c)
    \/ \E c \in 1..MaxCells : TagDrop(c)

-----------------------------------------------------------------------------
(* vm/slot.rs and the Tagged cell vm/stack.rs is written against           *)

SlotData(d) == [k |-> "Data", d |-> d, c |-> ""]

SlotFrame == [k |-> "Frame", d |-> Unit, c |-> ""]

SlotSuspend(c) == [k |-> "Suspend", d |-> Unit, c |-> c]

SlotNotInit == [k |-> "NotInit", d |-> Unit, c |-> ""]

\* nothing returned
NoSlot == [k |-> "None", d |-> Unit, c |-> ""]

\* Tagged::new(slot): the inlineable scalars are stored inline, every other
\* slot behind a pointer
TaggedOfSlot(slot) ==
    [boxed |-> ~(slot.k = "Data" /\ Inline(slot.d)), slot |-> slot]

\* Tagged::slot(self): the consuming decode of a cell
TaggedSlot(cell) == cell.slot

\* Tagged::frame()
TaggedFrame == TaggedOfSlot(SlotFrame)

\* Tagged::not_init()
TaggedNotInit == TaggedOfSlot(SlotNotInit)

\* Slot::data(self) returns the Data of a Data slot and panics on any other
SlotIsData(slot) == slot.k = "Data"

-----------------------------------------------------------------------------
(* compiler/parse.rs: the parser as functions of the token vector toks and  *)
(* the position p of the first remaining token (the slice &toks[p - 1 ..])  *)

\* the kinds of Token the rules tell apart (Number and String are read like
\* Boolean)
TokenKinds ==
    {"Sep", "OpenBracket", "CloseBracket", "OpenParen", "CloseParen",
     "Assign", "Lambda", "Symbol", "Boolean"}

\* the span of the p-th token: one position wide
TokenSpan(p) == [off |-> p - 1, len |-> 1]

\* Span::empty()
EmptySpan == [off |-> 0, len |-> 0]

\* Span::end
SpanEnd(sp) == sp.off + sp.len

\* Span::combine: the span from the start of the first to the end of the last
SpanCombine(a, b) ==
    LET lo == IF a.off < b.off THEN a.off ELSE b.off
        hi == IF SpanEnd(a) > SpanEnd(b) THEN SpanEnd(a) ELSE SpanEnd(b)
    IN  [off |-> lo, len |-> hi - lo]

\* Span::join: combine folded over a non-empty vector of spans
RECURSIVE SpanJoin(_)
SpanJoin(spans) ==
    IF Len(spans) = 1 THEN spans[1]
    ELSE SpanCombine(spans[1], SpanJoin(Tail(spans)))

\* Spanned<AST>: the node, its span and its children
Node(n, sp, kids) == [n |-> n, span |-> sp, kids |-> kids]

NoNode == Node("None", EmptySpan, <<>>)

\* Result::Ok((ast, remaining)), and for block the Option<Syntax> beside it
Ok(ast, pos) ==
    [k |-> "ok", ast |-> ast, pos |-> pos,
     msg |-> "", span |-> EmptySpan, haserr |-> FALSE]

\* Err(Syntax::error(msg, span))
Err(msg, sp) ==
    [k |-> "err", ast |-> NoNode, pos |-> 0,
     msg |-> msg, span |-> sp, haserr |-> TRUE]

\* panic!(msg): the process aborts, nothing is returned
Abort(msg) ==
    [k |-> "panic", ast |-> NoNode, pos |-> 0,
     msg |-> msg, span |-> EmptySpan, haserr |-> FALSE]

\* parse not called yet
NoResult ==
    [k |-> "none", ast |-> NoNode, pos |-> 0,
     msg |-> "", span |-> EmptySpan, haserr |-> FALSE]

\* fn vaccum: skip the leading tokens equal to token
RECURSIVE Vaccum(_, _, _)
Vaccum(toks, p, token) ==
    IF p <= Len(toks) /\ toks[p] = token
    THEN Vaccum(toks, p + 1, token)
    ELSE p

\* fn consume
Consume(toks, p, token) ==
    IF p > Len(toks)
    THEN Err("Unexpected EOF while parsing", EmptySpan)
    ELSE IF toks[p] # token
    THEN Err("Expected token", TokenSpan(p))
    ELSE Ok(NoNode, p + 1)

\* fn literal
Literal(toks, p) ==
    IF p <= Len(toks)
    THEN IF toks[p] = "Symbol"
         THEN Ok(Node("Symbol", TokenSpan(p), <<>>), p + 1)
         ELSE IF toks[p] \in {"Number", "String", "Boolean"}
         THEN Ok(Node("Data", TokenSpan(p), <<>>), p + 1)
         ELSE Err("Unexpected token", TokenSpan(p))
    ELSE Err("Unexpected EOF while parsing", EmptySpan)

\* an escalation test that also replaces the error kept by an equal one
EscalatesTies(e, worst) ==
    \/ e.span.off > worst.span.off
    \/ e.span.off = worst.span.off /\ SpanEnd(e.span) >= SpanEnd(worst.span)

\* first: `e.span.offset > p.span.offset || (e.span.offset == p.span.offset
\* && e.span.end() > p.span.end())`
Escalates(e, worst) ==
    \/ e.span.off > worst.span.off
    \/ e.span.off = worst.span.off /\ SpanEnd(e.span) > SpanEnd(worst.span)

\* a call of one parsing function by another, `call(remaining)`, is written
\* Apply("call", toks, p): the function is looked up by name, as first does
\* with the boxed closures it is given
RECURSIVE Apply(_, _, _), FirstLoop(_, _, _, _, _), BlockLoop(_, _, _)
RECURSIVE CallLoop(_, _, _)

\* fn first: the for loop from rule j on, worst being the error kept so far
FirstLoop(toks, p, rules, j, worst) ==
    IF j > Len(rules)
    THEN IF worst.k = "err" THEN worst
         ELSE IF p <= Len(toks)
         THEN Err("Unexpected construct", TokenSpan(p))
         ELSE Err("Unexpected EOF while parsing", EmptySpan)
    ELSE LET r == Apply(rules[j], toks, p)
         IN  IF r.k # "err" THEN r
             ELSE FirstLoop(toks, p, rules, j + 1,
                      IF worst.k # "err" THEN r
                      ELSE IF Escalates(r, worst) THEN r ELSE worst)

\* fn first
First(toks, p, rules) == FirstLoop(toks, p, rules, 1, NoResult)

\* fn expr
Expr(toks, p) ==
    First(toks, p, <<"expr_block", "expr_call", "op", "literal">>)

\* fn assign
Assign(toks, p) == First(toks, p, <<"assign_assign", "lambda">>)

\* fn op
Op(toks, p) == Apply("assign", toks, p)

\* fn assign_assign and fn lambda: a symbol, the token sign, then a call
Binding(toks, p, sign, n, msg) ==
    LET l == Literal(toks, p)
    IN  IF l.k # "ok" THEN l
        ELSE IF l.ast.n # "Symbol" THEN Err(msg, l.ast.span)
        ELSE LET c == Consume(toks, l.pos, sign)
             IN  IF c.k # "ok" THEN c
                 ELSE LET e == Apply("call", toks, c.pos)
                      IN  IF e.k # "ok" THEN e
                          ELSE Ok(Node(n, SpanCombine(l.ast.span, e.ast.span),
                                       <<l.ast, e.ast>>),
                                  e.pos)

\* fn assign_assign
AssignAssign(toks, p) ==
    Binding(toks, p, "Assign", "Assign", "Expected symbol for assignment")

\* fn lambda
Lambda(toks, p) ==
    Binding(toks, p, "Lambda", "Lambda", "Expected symbol for function paramater")

\* fn block: the while loop; on Err of call the error is kept and the loop
\* left, the expressions parsed so far are in exprs
BlockLoop(toks, p, exprs) ==
    IF p > Len(toks)
    THEN [Ok(NoNode, p) EXCEPT !.ast = Node("Block", EmptySpan, exprs)]
    ELSE LET c == Apply("call", toks, p)
         IN  IF c.k = "panic" THEN c
             ELSE IF c.k = "err"
             THEN [c EXCEPT !.k = "ok", !.pos = p,
                            !.ast = Node("Block", EmptySpan, exprs)]
             ELSE BlockLoop(toks, Vaccum(toks, c.pos, "Sep"), Append(exprs, c.ast))

\* a block that hands back the tokens it was given as the remaining ones
BlockStay(toks, p) ==
    LET l == BlockLoop(toks, Vaccum(toks, p, "Sep"), <<>>)
    IN  IF l.k = "panic" THEN l
        ELSE IF Len(l.ast.kids) = 0
        THEN Abort("annotations were empty")
        ELSE [l EXCEPT !.pos = p,
                       !.ast.span =
                  SpanJoin([j \in 1..Len(l.ast.kids) |-> l.ast.kids[j].span])]

\* fn block
Block(toks, p) ==
    LET l == BlockLoop(toks, Vaccum(toks, p, "Sep"), <<>>)
    IN  IF l.k = "panic" THEN l
        ELSE IF Len(l.ast.kids) = 0
        THEN Abort("annotations were empty")
        ELSE [l EXCEPT !.ast.span =
                  SpanJoin([j \in 1..Len(l.ast.kids) |-> l.ast.kids[j].span])]

\* a fold that nests to the right: f x y becomes f (x y)
CallFoldRight(previous, arg) ==
    IF previous.n = "Call"
    THEN Node("Call", SpanCombine(previous.span, arg.span),
              <<previous.kids[1],
                Node("Call", SpanCombine(previous.kids[2].span, arg.span),
                     <<previous.kids[2], arg>>)>>)
    ELSE Node("Call", SpanCombine(previous.span, arg.span), <<previous, arg>>)

\* call: `previous = Spanned::new(AST::call(previous, arg), span)`
CallFold(previous, arg) ==
    Node("Call", SpanCombine(previous.span, arg.span), <<previous, arg>>)

\* fn call: the while loop folding the arguments onto previous
CallLoop(toks, p, previous) ==
    IF p > Len(toks) THEN Ok(previous, p)
    ELSE LET a == Apply("expr", toks, p)
         IN  IF a.k = "panic" THEN a
             ELSE IF a.k = "err" THEN Ok(previous, p)
             ELSE CallLoop(toks, a.pos, CallFold(previous, a.ast))

\* fn call
Call(toks, p) ==
    LET e == Apply("expr", toks, Vaccum(toks, p, "Sep"))
    IN  IF e.k # "ok" THEN e ELSE CallLoop(toks, e.pos, e.ast)

\* fn expr_block
ExprBlock(toks, p) ==
    LET start == Consume(toks, p, "OpenBracket")
    IN  IF start.k # "ok" THEN start
        ELSE LET b == Apply("block", toks, start.pos)
             IN  IF b.k = "panic" THEN b
                 ELSE LET c == Consume(toks, b.pos, "CloseBracket")
                      IN  IF c.k = "ok" THEN Ok(b.ast, c.pos)
                          ELSE IF b.haserr THEN Err(b.msg, b.span)
                          ELSE c

\* fn expr_call
ExprCall(toks, p) ==
    LET start == Consume(toks, p, "OpenParen")
    IN  IF start.k # "ok" THEN start
        ELSE LET c == Apply("call", toks, start.pos)
             IN  IF c.k # "ok" THEN c
                 ELSE LET end == Consume(toks, c.pos, "CloseParen")
                      IN  IF end.k # "ok" THEN end ELSE Ok(c.ast, end.pos)

\* `rule(tokens)`: the parsing functions by name
Apply(rule, toks, p) ==
    CASE rule = "block" -> Block(toks, p)
      [] rule = "call" -> Call(toks, p)
      [] rule = "expr" -> Expr(toks, p)
      [] rule = "assign" -> Assign(toks, p)
      [] rule = "expr_block" -> ExprBlock(toks, p)
      [] rule = "expr_call" -> ExprCall(toks, p)
      [] rule = "op" -> Op(toks, p)
      [] rule = "literal" -> Literal(toks, p)
      [] rule = "assign_assign" -> AssignAssign(toks, p)
      [] rule = "lambda" -> Lambda(toks, p)

\* pub fn parse
Parse(toks) ==
    LET b == Apply("block", toks, 1)
    IN  IF b.k = "panic" THEN b
        ELSE IF b.haserr THEN Err(b.msg, b.span)
        ELSE IF Vaccum(toks, b.pos, "Sep") > Len(toks)
        THEN Ok(b.ast, b.pos)
        ELSE Abort("Did not consume all tokens")

\* first not called yet
NoAlt == [rules |-> <<>>, res |-> NoResult]

\* the rule lists first is given: those of expr and assign, the empty list,
\* and every list of one or two of the rules below
AltRuleNames == {"literal", "expr_call", "assign_assign"}

AltRules ==
    {<<>>, <<"expr_block", "expr_call", "op", "literal">>,
     <<"assign_assign", "lambda">>}
    \cup {<<a>> : a \in AltRuleNames}
    \cup {<<a, b>> : a \in AltRuleNames, b \in AltRuleNames}

-----------------------------------------------------------------------------
(* vm/stack.rs                                                             *)

\* the continuations the interpreter suspends
Suspends == {"X", "Y"}

\* the plain values the interpreter pushes
PlainData == {Boolean(TRUE), Boolean(FALSE)}

\* the values the interpreter can push: plain ones, and a handle on any
\* referent made so far (local_data and local_slot hand one out as soon as
\* the local is promoted, and a closure keeps it)
PushInputs == PlainData \cup {Heaped(r) : r \in 1..Len(refs)}

\* the local indices the interpreter uses: every position a local can have,
\* which is past the top whenever the current frame is short
LocalIndices == 0..(MaxStack - 2)

Last(s) == s[Len(s)]

Front(s) == SubSeq(s, 1, Len(s) - 1)

\* self.stack[index], index 0-based
CellAt(s, index) == s[index + 1]

\* mem::replace(&mut self.stack[index], tagged)
Swap(s, index, cell) == [s EXCEPT ![index + 1] = cell]

\* Stack::frame_index
FrameIndex == Last(frames)

\* self.frame_index() + index + 1
LocalIndex(i) == FrameIndex + i + 1

\* pop_data: `Data::Heaped(h) => h.borrow().clone(), d => d`
Unheap(d, rf) == IF d.t = "Heaped" THEN rf[d.r] ELSE d

NoOp == [op |-> "init", i |-> 0, len |-> 0]

NoSnap == [st |-> "none", d |-> Unit, stack |-> <<>>, frames |-> <<>>]

NoScen ==
    [stage |-> 0, i |-> 0, a |-> Unit, h |-> Unit, n |-> 0, got |-> {}, b |-> Unit]

\* no Tagged cell made yet, the Stack as Stack::init returns it, and an
\* empty token vector not yet parsed
Init ==
    /\ tagged = <<>>
    /\ heap = <<>>
    /\ out = NoData
    /\ tstatus = "running"
    /\ tlast = [op |-> "init", c |-> 0]
    /\ frames = <<0>>
    /\ stack = <<TaggedFrame>>
    /\ refs = <<>>
    /\ ret = NoSlot
    /\ status = "running"
    /\ last = NoOp
    /\ snap = NoSnap
    /\ calls = <<>>
    /\ scen = NoScen
    /\ tokens = <<>>
    /\ parsed = NoResult
    /\ alt = NoAlt
    /\ called = NoResult

\* history: push_data(d) records d and the stack it was pushed on; a pop_data
\* that comes next keeps the record, anything else forgets it
NextSnap(op, d) ==
    IF op = "push_data"
    THEN [st |-> "pushed", d |-> d, stack |-> stack, frames |-> frames]
    ELSE IF op = "pop_data" /\ snap.st = "pushed"
    THEN [snap EXCEPT !.st = "popped"]
    ELSE NoSnap

\* history: heapify(i) of a local holding x opens the scenario (stage 1); each
\* local_data(i) that follows is kept in got (n counts up to two of them);
\* push_data(x) gives stage 2, set_local(i) stage 3, local_data(i) stage 4
NextScen(op, i, x) ==
    IF op = "heapify"
    THEN [NoScen EXCEPT !.stage = 1, !.i = i, !.a = x, !.h = Heaped(Len(refs) + 1)]
    ELSE IF op = "local_data" /\ scen.stage = 1 /\ scen.i = i
    THEN [scen EXCEPT !.n = IF @ < 2 THEN @ + 1 ELSE @, !.got = @ \cup {x}]
    ELSE IF op = "push_data" /\ scen.stage = 1
    THEN [scen EXCEPT !.stage = 2, !.b = x]
    ELSE IF op = "set_local" /\ scen.stage = 2 /\ scen.i = i
    THEN [scen EXCEPT !.stage = 3]
    ELSE IF op = "local_data" /\ scen.stage = 3 /\ scen.i = i
    THEN [scen EXCEPT !.stage = 4]
    ELSE NoScen

\* the operation returns: the stack, frames and referents it leaves, and
\* what it hands back
Return(op, i, x, s, f, rf, r) ==
    /\ status' = "running"
    /\ stack' = s
    /\ frames' = f
    /\ refs' = rf
    /\ ret' = r
    /\ last' = [op |-> op, i |-> i, len |-> Len(stack)]
    /\ snap' = NextSnap(op, x)
    /\ scen' = NextScen(op, i, x)
    /\ calls' = IF op = "push_frame"
                THEN Append(calls,
                         [c |-> x, len |-> Len(stack), nframes |-> Len(frames)])
                ELSE IF op = "pop_frame" /\ Len(calls) > 0
                THEN Front(calls)
                ELSE calls

\* the operation panics: the process is gone; the stack and the frames are
\* kept as the operation left them
Panic(op, i, s, f) ==
    /\ status' = "aborted"
    /\ stack' = s
    /\ frames' = f
    /\ ret' = NoSlot
    /\ last' = [op |-> op, i |-> i, len |-> Len(stack)]
    /\ snap' = NextSnap(op, Unit)
    /\ scen' = IF op = "heapify" THEN NoScen ELSE NextScen(op, i, Unit)
    /\ calls' = <<>>
    /\ UNCHANGED refs

\* Stack::push_data
PushData(d) ==
    /\ status = "running"
    /\ UNCHANGED <<tagVars, parseVars>>
    /\ Len(stack) < MaxStack
    /\ Return("push_data", 0, d,
              Append(stack, TaggedOfSlot(SlotData(d))), frames, refs, NoSlot)

\* Stack::push_tagged
PushTagged(cell) ==
    /\ status = "running"
    /\ UNCHANGED <<tagVars, parseVars>>
    /\ Len(stack) < MaxStack
    /\ Return("push_tagged", 0, Unit, Append(stack, cell), frames, refs, NoSlot)

\* a pop_data that reads the top cell and leaves it on the stack
PopDataPeek ==
    /\ status = "running"
    /\ UNCHANGED <<tagVars, parseVars>>
    /\ IF Len(stack) = 0
       THEN Panic("pop_data", 0, stack, frames)
       ELSE LET slot == TaggedSlot(Last(stack))
            IN  IF ~SlotIsData(slot)
                THEN Panic("pop_data", 0, stack, frames)
                ELSE Return("pop_data", 0, Unit, stack, frames, refs,
                            SlotData(Unheap(slot.d, refs)))

\* a pop_data that hands back Unit when the popped cell holds no Data
PopDataDefault ==
    /\ status = "running"
    /\ UNCHANGED <<tagVars, parseVars>>
    /\ IF Len(stack) = 0
       THEN Panic("pop_data", 0, stack, frames)
       ELSE LET slot == TaggedSlot(Last(stack))
            IN  Return("pop_data", 0, Unit, Front(stack), frames, refs,
                       SlotData(IF SlotIsData(slot)
                                THEN Unheap(slot.d, refs) ELSE Unit))

\* Stack::pop_data
PopData ==
    /\ status = "running"
    /\ UNCHANGED <<tagVars, parseVars>>
    /\ IF Len(stack) = 0
       THEN Panic("pop_data", 0, stack, frames)
       ELSE LET slot == TaggedSlot(Last(stack))
            IN  IF ~SlotIsData(slot)
                THEN Panic("pop_data", 0, Front(stack), frames)
                ELSE Return("pop_data", 0, Unit, Front(stack), frames, refs,
                            SlotData(Unheap(slot.d, refs)))

\* pop_frame: the index handed to swap is the one just popped off frames,
\* `let index = self.frames.pop()`
PopFrameSwapIndex(f) == Last(f)

\* a pop_frame that hands back the continuation "X" where the code panics for
\* want of a sentinel or of an enclosing frame
PopFrameDefault ==
    /\ status = "running"
    /\ UNCHANGED <<tagVars, parseVars>>
    /\ IF Len(frames) = 0
       THEN Panic("pop_frame", 0, stack, frames)
       ELSE IF Len(stack) = 0
       THEN Panic("pop_frame", 0, stack, Front(frames))
       ELSE IF TaggedSlot(Last(stack)) # SlotFrame
       THEN Return("pop_frame", 0, Unit, Front(stack), Front(frames), refs,
                   SlotSuspend("X"))
       ELSE LET index == PopFrameSwapIndex(frames)
                popped == Front(stack)
            IN  IF index >= Len(popped)
                THEN Return("pop_frame", 0, Unit, popped, Front(frames), refs,
                            SlotSuspend("X"))
                ELSE LET old == TaggedSlot(CellAt(popped, index))
                         swapped == Swap(popped, index, TaggedFrame)
                     IN  IF old.k # "Suspend"
                         THEN Panic("pop_frame", 0, swapped, Front(frames))
                         ELSE Return("pop_frame", 0, Unit,
                                     swapped, Front(frames), refs, old)

\* Stack::pop_frame
PopFrame ==
    /\ status = "running"
    /\ UNCHANGED <<tagVars, parseVars>>
    /\ IF Len(frames) = 0
       THEN Panic("pop_frame", 0, stack, frames)
       ELSE IF Len(stack) = 0
       THEN Panic("pop_frame", 0, stack, Front(frames))
       ELSE IF TaggedSlot(Last(stack)) # SlotFrame
       THEN Panic("pop_frame", 0, Front(stack), Front(frames))
       ELSE LET index == PopFrameSwapIndex(frames)
                popped == Front(stack)
            IN  IF index >= Len(popped)
                THEN Panic("pop_frame", 0, popped, Front(frames))
                ELSE LET old == TaggedSlot(CellAt(popped, index))
                         swapped == Swap(popped, index, TaggedFrame)
                     IN  IF old.k # "Suspend"
                         THEN Panic("pop_frame", 0, swapped, Front(frames))
                         ELSE Return("pop_frame", 0, Unit,
                                     swapped, Front(frames), refs, old)

\* a frame base one below the cell the sentinel is pushed at
PushFrameBaseTop(s) == Len(s) - 1

\* a frame base that is always the bottom cell
PushFrameBaseZero(s) == 0

\* push_frame: `self.frames.push(self.stack.len())`
PushFrameBase(s) == Len(s)

\* a push_frame that leaves the marker of the suspended frame as it was
PushFrameMarkerKept(c) == TaggedFrame

\* push_frame: `self.stack[frame_index] = Tagged::new(Slot::Suspend(suspend))`
PushFrameMarker(c) == TaggedOfSlot(SlotSuspend(c))

\* a push_frame that pushes a placeholder where the sentinel belongs
PushFrameSentinelNone == TaggedNotInit

\* push_frame: `self.stack.push(Tagged::frame())`
PushFrameSentinel == TaggedFrame

\* Stack::push_frame
PushFrame(c) ==
    /\ status = "running"
    /\ UNCHANGED <<tagVars, parseVars>>
    /\ Len(stack) < MaxStack
    /\ IF Len(frames) = 0 \/ FrameIndex >= Len(stack)
       THEN Panic("push_frame", 0, stack, frames)
       ELSE Return("push_frame", 0, c,
                   Append(Swap(stack, FrameIndex, PushFrameMarker(c)),
                          PushFrameSentinel),
                   Append(frames, PushFrameBase(stack)), refs, NoSlot)

\* a heapify that pushes the new Heaped cell instead of putting it in place
HeapifiedPushed(gap, li, r) == Append(gap, TaggedOfSlot(SlotData(Heaped(r))))

\* heapify: `mem::replace(&mut self.stack[local_index], Tagged::new(heaped))`
Heapified(gap, li, r) == Swap(gap, li, TaggedOfSlot(SlotData(Heaped(r))))

\* heapify: `Data::Heaped(Rc::new(RefCell::new(data)))` for whatever Data
\* the local holds; nothing tests whether it is already Heaped
Heapify(i) ==
    /\ status = "running"
    /\ UNCHANGED <<tagVars, parseVars>>
    /\ Len(refs) < MaxRefs
    /\ LET li == LocalIndex(i)
       IN  IF li >= Len(stack)
           THEN Panic("heapify", i, stack, frames)
           ELSE LET slot == TaggedSlot(CellAt(stack, li))
                    gap == Swap(stack, li, TaggedNotInit)
                IN  IF ~SlotIsData(slot)
                    THEN Panic("heapify", i, gap, frames)
                    ELSE Return("heapify", i, slot.d,
                                Heapified(gap, li, Len(refs) + 1),
                                frames, Append(refs, slot.d), NoSlot)

\* a read that leaves the placeholder in the cell
LocalRestoreNone(gap, li, slot) == gap

\* local_slot, local_data: `mem::drop(self.swap(local_index, Tagged::new(slot)))`
LocalRestore(gap, li, slot) == Swap(gap, li, TaggedOfSlot(slot))

\* Stack::local_slot
LocalSlot(i) ==
    /\ status = "running"
    /\ UNCHANGED <<tagVars, parseVars>>
    /\ LET li == LocalIndex(i)
       IN  IF li >= Len(stack)
           THEN Panic("local_slot", i, stack, frames)
           ELSE LET slot == TaggedSlot(CellAt(stack, li))
                    gap == Swap(stack, li, TaggedNotInit)
                IN  Return("local_slot", i, Unit,
                           LocalRestore(gap, li, slot), frames, refs, slot)

\* a clone that copies the referent of a Heaped instead of sharing it
CloneDeep(d, rf) == Unheap(d, rf)

\* local_data: `let copy = data.clone()`; the clone of a Heaped is another
\* handle on the same Rc, so it names the same referent
CloneData(d, rf) == d

\* Stack::local_data
LocalData(i) ==
    /\ status = "running"
    /\ UNCHANGED <<tagVars, parseVars>>
    /\ LET li == LocalIndex(i)
       IN  IF li >= Len(stack)
           THEN Panic("local_data", i, stack, frames)
           ELSE LET slot == TaggedSlot(CellAt(stack, li))
                    gap == Swap(stack, li, TaggedNotInit)
                IN  IF ~SlotIsData(slot)
                    THEN Panic("local_data", i, gap, frames)
                    ELSE Return("local_data", i, CloneData(slot.d, refs),
                                LocalRestore(gap, li, SlotData(slot.d)),
                                frames, refs, SlotData(CloneData(slot.d, refs)))

\* a set_local without the Heaped arm: every local is swapped and dropped
SetLocalNeverShared(slot) == FALSE

\* set_local: the arm `Slot::Data(Data::Heaped(ref cell))`
SetLocalShared(slot) == slot.k = "Data" /\ slot.d.t = "Heaped"

\* a declaration test that lets a Shared local at the top fall through to
\* the Heaped arm
SetLocalDeclaresPlain(s, li) ==
    /\ Len(s) - 1 = li
    /\ ~(TaggedSlot(s[li + 1]).k = "Data" /\ TaggedSlot(s[li + 1]).d.t = "Heaped")

\* a declaration test that also accepts a local past the top
SetLocalDeclaresLax(s, li) == Len(s) - 1 <= li

\* set_local: `if (self.stack.len() - 1) == local_index`
SetLocalDeclares(s, li) == Len(s) - 1 = li

\* a swap that pops the top cell and leaves the placeholder in the local
SetLocalSwapGap(gap, li) == Front(gap)

\* a swap that copies the top cell into the local and leaves it on the stack
SetLocalSwapKeep(gap, li) == Swap(gap, li, Last(gap))

\* set_local: the arm `_ => self.stack.pop().unwrap()` and the swap after it
SetLocalSwapDrop(gap, li) == Swap(Front(gap), li, Last(gap))

\* Stack::set_local
SetLocal(i) ==
    /\ status = "running"
    /\ UNCHANGED <<tagVars, parseVars>>
    /\ LET li == LocalIndex(i)
           top == Len(stack) - 1
       IN  IF SetLocalDeclares(stack, li)
           THEN Return("set_local", i, Unit, stack, frames, refs, NoSlot)
           ELSE IF top < li
           THEN Panic("set_local", i, stack, frames)
           ELSE LET slot == TaggedSlot(CellAt(stack, li))
                    gap == Swap(stack, li, TaggedNotInit)
                    value == TaggedSlot(Last(gap))
                IN  IF slot.k = "Frame"
                    THEN Panic("set_local", i, gap, frames)
                    ELSE IF SetLocalShared(slot)
                    THEN IF ~SlotIsData(value)
                         THEN Panic("set_local", i, Front(gap), frames)
                         ELSE Return("set_local", i, Unit,
                                  Swap(Front(gap), li, TaggedOfSlot(slot)),
                                  frames,
                                  [refs EXCEPT ![slot.d.r] = Unheap(value.d, refs)],
                                  NoSlot)
                    ELSE Return("set_local", i, Unit,
                                SetLocalSwapDrop(gap, li), frames, refs, NoSlot)

StackNext ==
    \/ \E d \in PushInputs : PushData(d)
    \/ \E d \in PushInputs : PushTagged(TaggedOfSlot(SlotData(d)))
    \/ PopData
    \/ PopFrame
    \/ \E c \in Suspends : PushFrame(c)
    \/ \E i \in LocalIndices : Heapify(i)
    \/ \E i \in LocalIndices : LocalSlot(i)
    \/ \E i \in LocalIndices : LocalData(i)
    \/ \E i \in LocalIndices : SetLocal(i)

-----------------------------------------------------------------------------
(* compiler/parse.rs: the caller builds a token vector and parses it       *)

\* the caller (the lexer) appends a token to the vector it will hand to parse
TokenPush(t) ==
    /\ parsed.k = "none" /\ alt.res.k = "none" /\ called.k = "none"
    /\ Len(tokens) < MaxTokens
    /\ tokens' = Append(tokens, t)
    /\ UNCHANGED <<parsed, alt, called, tagVars, stackVars>>

\* parse(tokens)
ParseTokens ==
    /\ parsed.k = "none" /\ alt.res.k = "none" /\ called.k = "none"
    /\ parsed' = Parse(tokens)
    /\ UNCHANGED <<tokens, alt, called, tagVars, stackVars>>

\* first(tokens, rules)
FirstRules(rules) ==
    /\ parsed.k = "none" /\ alt.res.k = "none" /\ called.k = "none"
    /\ Len(tokens) <= MaxAltTokens
    /\ alt' = [rules |-> rules, res |-> First(tokens, 1, rules)]
    /\ UNCHANGED <<tokens, parsed, called, tagVars, stackVars>>

\* call(tokens)
CallTokens ==
    /\ parsed.k = "none" /\ alt.res.k = "none" /\ called.k = "none"
    /\ called' = Call(tokens, 1)
    /\ UNCHANGED <<tokens, parsed, alt, tagVars, stackVars>>

ParseNext ==
    \/ \E t \in TokenKinds : TokenPush(t)
    \/ ParseTokens
    \/ \E rules \in AltRules : FirstRules(rules)
    \/ CallTokens

-----------------------------------------------------------------------------
(* Specifications                                                          *)

\* the Tagged cell on its own
SpecTag == Init /\ [][TagNext]_vars

\* the Stack driven by an arbitrary interpreter
SpecStack == Init /\ [][StackNext]_vars

\* the parser applied to every token vector of up to MaxTokens tokens
SpecParse == Init /\ [][ParseNext]_vars

-----------------------------------------------------------------------------
(* Claims about vm/tag.rs                                                  *)

\* the Data the cell of the last operation was made from
LastSrc == tagged[tlast.c].src

\* C1: every heap box is reclaimed exactly once: never more than once, and
\* at least once when the cell that owns it is gone
C1_ReclaimedExactlyOnce ==
    \A k \in DOMAIN heap :
        /\ heap[k].frees <= 1
        /\ ~tagged[heap[k].owner].live => heap[k].frees >= 1

\* C2: for every Data v that is not Real(NaN), Tagged::new(v).data()
\* returns a value equal to v
C2_RoundTrip ==
    (tlast.op = "data" /\ ~IsNaN(LastSrc))
        => (tstatus = "running" /\ DataEq(out, LastSrc))

\* C3: for every Real whose bits are a NaN, Tagged::new(Real(nan)).data()
\* returns a Real that is a NaN
C3_NaNDecodesNaN ==
    (tlast.op = "data" /\ IsNaN(LastSrc))
        => (tstatus = "running" /\ IsNaN(out))

-----------------------------------------------------------------------------
(* Claims about vm/stack.rs                                                *)

\* the top cell is the sentinel of the current frame, which has a caller
AtFrameSentinel ==
    /\ Len(frames) > 1
    /\ Len(calls) > 0
    /\ Len(stack) = FrameIndex + 1
    /\ TaggedSlot(Last(stack)) = SlotFrame

\* C4: a pop_frame that closes a frame returns the continuation given to the
\* push_frame that opened it, and once the outermost push_frame is closed the
\* stack and frames have the lengths they had before it
C4_FrameNesting ==
    [][(last'.op = "pop_frame" /\ AtFrameSentinel)
          => /\ status' = "running"
             /\ ret' = SlotSuspend(Last(calls).c)
             /\ Len(calls) = 1
                    => /\ Len(stack') = calls[1].len
                       /\ Len(frames') = calls[1].nframes]_vars

\* C5: pop_frame with the sentinel on top and an enclosing frame pops the
\* frame index and the sentinel, turns the marker of the enclosing frame (the
\* cell at the new frames.top()) from Suspend back into Frame, and returns the
\* continuation that marker held
C5_PopFrameRestores ==
    [][(last'.op = "pop_frame" /\ AtFrameSentinel)
          => /\ status' = "running"
             /\ frames' = Front(frames)
             /\ Len(stack') = Len(stack) - 1
             /\ TaggedSlot(CellAt(stack', Last(frames'))) = SlotFrame
             /\ TaggedSlot(CellAt(stack, Last(Front(frames)))).k = "Suspend"
             /\ ret' = TaggedSlot(CellAt(stack, Last(Front(frames))))]_vars

\* what a holder of the value d sees through it
Observe(d, rf) == IF d.t = "Heaped" THEN rf[d.r] ELSE d

\* the slot holds a Shared (Heaped) value
IsShared(slot) == slot.k = "Data" /\ slot.d.t = "Heaped"

\* C6: set_local(i) on a promoted local below the top keeps the Heaped in the
\* slot and replaces its referent by the popped value, and every value
\* local_data(i) returned since the promotion observes the new value
C6_PromotionAliasing ==
    [][\A i \in LocalIndices :
          (/\ last'.op = "set_local"
           /\ last'.i = i
           /\ LocalIndex(i) < Len(stack) - 1
           /\ IsShared(TaggedSlot(CellAt(stack, LocalIndex(i)))))
          => LET li == LocalIndex(i)
                 h == TaggedSlot(CellAt(stack, li)).d
                 v == Unheap(TaggedSlot(Last(stack)).d, refs)
             IN  /\ status' = "running"
                 /\ Len(stack') = Len(stack) - 1
                 /\ CellAt(stack', li) = CellAt(stack, li)
                 /\ Len(refs') = Len(refs)
                 /\ refs'[h.r] = v
                 /\ (scen.stage = 2 /\ scen.i = i)
                        => /\ h = scen.h
                           /\ \A g \in scen.got : Observe(g, refs') = v]_vars

\* C6 witness: local 0 held true and was promoted, two local_data(0) returned
\* the handle, false was pushed and set_local(0) has stored it in the referent
C6_Witness ==
    /\ status = "running"
    /\ last.op = "set_local"
    /\ last.i = 0
    /\ scen.stage = 3
    /\ scen.a = Boolean(TRUE)
    /\ scen.b = Boolean(FALSE)
    /\ scen.n = 2
    /\ scen.got = {scen.h}
    /\ TaggedSlot(CellAt(stack, 1)) = SlotData(scen.h)
    /\ Observe(scen.h, refs) = Boolean(FALSE)

\* C7 as claimed: after heapify(i), push_data(b), set_local(i), the read
\* local_data(i) returns b
C7_ScenarioC ==
    scen.stage = 4 => (status = "running" /\ ret = SlotData(scen.b))

\* C7 as amended: the read returns the Heaped made by the promotion, and its
\* referent is b (for a Heaped b, the copy of b's referent that pop_data made)
C7_ScenarioC_Amended ==
    scen.stage = 4
        => /\ status = "running"
           /\ ret = SlotData(scen.h)
           /\ scen.b.t # "Heaped" => refs[scen.h.r] = scen.b
           /\ (scen.b.t = "Heaped" /\ scen.b # scen.h)
                  => refs[scen.h.r] = refs[scen.b.r]
           /\ scen.b = scen.h => refs[scen.h.r] = scen.a

\* C7 witness: Scenario C itself, local 0 declared true, promoted, set to false
C7_Witness ==
    /\ scen.stage = 4
    /\ scen.i = 0
    /\ scen.a = Boolean(TRUE)
    /\ scen.b = Boolean(FALSE)
    /\ last.op = "local_data"
    /\ last.i = 0
    /\ ret.d.t = "Heaped"
    /\ refs[ret.d.r] = Boolean(FALSE)

\* C8: pop_data never returns a Heaped value
C8_PopNeverShared ==
    (last.op = "pop_data" /\ status = "running") => ret.d.t # "Heaped"

C10_UnderflowFatal ==
    [][(last'.op = "pop_data" /\ Len(stack) = FrameIndex + 1)
          => (status' = "aborted" /\ ret' = NoSlot)]_vars

\* C10 witness: pop_data on the stack Stack::init made has panicked
C10_Witness ==
    /\ status = "aborted"
    /\ last.op = "pop_data"
    /\ frames = <<0>>
    /\ stack = <<>>
    /\ refs = <<>>

\* C11: heapify(i) on a local that already holds a Heaped value aborts and
\* makes no second indirection
C11_DoublePromotionFatal ==
    [][\A i \in LocalIndices :
          (/\ last'.op = "heapify"
           /\ last'.i = i
           /\ LocalIndex(i) < Len(stack)
           /\ IsShared(TaggedSlot(CellAt(stack, LocalIndex(i)))))
          => (status' = "aborted" /\ refs' = refs)]_vars

\* C12: set_local(i) whose local is the top cell returns without popping:
\* stack, frames and referents are unchanged, also when that local is Heaped
C12_DeclarationNoOp ==
    [][\A i \in LocalIndices :
          (/\ last'.op = "set_local"
           /\ last'.i = i
           /\ LocalIndex(i) = Len(stack) - 1)
          => /\ status' = "running"
             /\ stack' = stack
             /\ frames' = frames
             /\ refs' = refs
             /\ ret' = NoSlot]_vars

\* C12 witness: set_local(0) has returned on a stack whose top cell is local 0,
\* promoted while it held true; nothing was popped and the referent is true
C12_Witness ==
    /\ status = "running"
    /\ last.op = "set_local"
    /\ last.i = 0
    /\ last.len = 2
    /\ frames = <<0>>
    /\ stack = <<TaggedFrame, TaggedOfSlot(SlotData(Heaped(1)))>>
    /\ refs = <<Boolean(TRUE)>>

\* C13: set_local(i) on a local below the top that is not Heaped pops the top
\* cell into the local's cell: the stack is one shorter, the local's cell is
\* the old top cell, every other cell, the frames and the referents are kept
C13_SwapAndDiscard ==
    [][\A i \in LocalIndices :
          (/\ last'.op = "set_local"
           /\ last'.i = i
           /\ LocalIndex(i) < Len(stack) - 1
           /\ ~IsShared(TaggedSlot(CellAt(stack, LocalIndex(i)))))
          => /\ status' = "running"
             /\ Len(stack') = Len(stack) - 1
             /\ CellAt(stack', LocalIndex(i)) = Last(stack)
             /\ \A j \in 0..(Len(stack') - 1) :
                    j # LocalIndex(i) => CellAt(stack', j) = CellAt(stack, j)
             /\ frames' = frames
             /\ refs' = refs]_vars

\* C13 witness: no local was ever promoted, the stack had three cells and
\* set_local(0) has moved the top cell, false, into local 0
C13_Witness ==
    /\ status = "running"
    /\ last.op = "set_local"
    /\ last.i = 0
    /\ last.len = 3
    /\ refs = <<>>
    /\ frames = <<0>>
    /\ stack = <<TaggedFrame, TaggedOfSlot(SlotData(Boolean(FALSE)))>>

\* C14: set_local(i) whose local lies past the top cell aborts and leaves the
\* stack, the frames and the referents as they were
C14_BeyondTopFatal ==
    [][\A i \in LocalIndices :
          (/\ last'.op = "set_local"
           /\ last'.i = i
           /\ LocalIndex(i) > Len(stack) - 1)
          => /\ status' = "aborted"
             /\ stack' = stack
             /\ frames' = frames
             /\ refs' = refs]_vars

\* C14 witness: set_local(1) has panicked on a stack whose only local is 0
C14_Witness ==
    /\ status = "aborted"
    /\ last.op = "set_local"
    /\ last.i = 1
    /\ last.len = 2
    /\ frames = <<0>>
    /\ stack = <<TaggedFrame, TaggedOfSlot(SlotData(Boolean(TRUE)))>>

\* C15: local_slot(i) and local_data(i) on a local that is on the stack return
\* the content of the cell at frame_index + 1 + i and leave the stack, the
\* frames and the referents unchanged
C15_LocalReadsPeek ==
    [][\A i \in LocalIndices :
          (/\ last'.op \in {"local_slot", "local_data"}
           /\ last'.i = i
           /\ LocalIndex(i) < Len(stack))
          => /\ status' = "running"
             /\ ret' = TaggedSlot(CellAt(stack, LocalIndex(i)))
             /\ stack' = stack
             /\ frames' = frames
             /\ refs' = refs]_vars

\* C15 witness: local_data(1) has returned the second local, true, and the
\* marker and the two locals are in place
C15_Witness ==
    /\ status = "running"
    /\ last.op = "local_data"
    /\ last.i = 1
    /\ frames = <<0>>
    /\ stack = <<TaggedFrame, TaggedOfSlot(SlotData(Boolean(FALSE))),
                 TaggedOfSlot(SlotData(Boolean(TRUE)))>>
    /\ ret = SlotData(Boolean(TRUE))

\* C16: push_frame(k) puts Suspend(k) in the marker cell of the current frame,
\* appends the old stack length to frames and a Frame cell to the stack, and
\* leaves every other cell and the referents unchanged
C16_PushFrame ==
    [][last'.op = "push_frame"
          => /\ status' = "running"
             /\ Len(calls') = Len(calls) + 1
             /\ TaggedSlot(CellAt(stack', FrameIndex)) = SlotSuspend(Last(calls').c)
             /\ frames' = Append(frames, Len(stack))
             /\ Len(stack') = Len(stack) + 1
             /\ TaggedSlot(Last(stack')) = SlotFrame
             /\ \A j \in 0..(Len(stack) - 1) :
                    j # FrameIndex => CellAt(stack', j) = CellAt(stack, j)
             /\ refs' = refs]_vars

\* C16 witness: push_frame(Y) on a stack holding the marker and one value
C16_Witness ==
    /\ status = "running"
    /\ last.op = "push_frame"
    /\ last.len = 2
    /\ frames = <<0, 2>>
    /\ stack = <<TaggedOfSlot(SlotSuspend("Y")),
                 TaggedOfSlot(SlotData(Boolean(TRUE))), TaggedFrame>>

\* C17: pop_frame aborts, returning no continuation, when the current frame is
\* the outermost one or when the top cell is not the Frame sentinel
C17_PopFrameFatal ==
    [][(/\ last'.op = "pop_frame"
        /\ \/ Len(frames) = 1
           \/ TaggedSlot(Last(stack)) # SlotFrame)
          => (status' = "aborted" /\ ret' = NoSlot)]_vars

\* C17 witness: pop_frame on the stack Stack::init made has panicked
C17_Witness ==
    /\ status = "aborted"
    /\ last.op = "pop_frame"
    /\ last.len = 1
    /\ frames = <<>>
    /\ stack = <<>>
    /\ refs = <<>>

\* C21: while the Stack is running, the cell at frames.top() holds the Frame
\* sentinel
C21_CurrentMarkerIsFrame ==
    status = "running"
        => /\ Len(frames) > 0
           /\ FrameIndex < Len(stack)
           /\ TaggedSlot(CellAt(stack, FrameIndex)) = SlotFrame

\* C21 witness: push_frame has returned and the new frame's marker is on top
C21_Witness ==
    /\ status = "running"
    /\ last.op = "push_frame"
    /\ frames = <<0, 1>>
    /\ Len(stack) = 2
    /\ TaggedSlot(stack[2]) = SlotFrame

\* C22: while the Stack is running, frames is non-empty, strictly increasing
\* from oldest to newest, and each entry is the index of a cell
C22_FramesIncreasing ==
    status = "running"
        => /\ Len(frames) > 0
           /\ \A j \in 1..(Len(frames) - 1) : frames[j] < frames[j + 1]
           /\ \A j \in 1..Len(frames) : frames[j] >= 0 /\ frames[j] < Len(stack)

\* C22 witness: a second frame opened above one local of the first
C22_Witness ==
    /\ status = "running"
    /\ frames = <<0, 2>>
    /\ Len(stack) = 3
    /\ last.op = "push_frame"

\* C23: while the Stack is running, no cell holds the NotInit placeholder
C23_NoPlaceholderLeft ==
    status = "running"
        => \A idx \in 0..(Len(stack) - 1) :
               TaggedSlot(CellAt(stack, idx)) # SlotNotInit

\* C23 witness: set_local(0) has gone through the Heaped arm, which swaps the
\* placeholder in and the Heaped cell back, and the two cells left hold the
\* marker and the Heaped local
C23_Witness ==
    /\ status = "running"
    /\ last.op = "set_local"
    /\ last.i = 0
    /\ last.len = 3
    /\ stack = <<TaggedFrame, TaggedOfSlot(SlotData(Heaped(1)))>>
    /\ refs = <<Boolean(FALSE)>>

\* C24: heapify(i) on a local that is on the stack and not Heaped puts in its
\* cell a Heaped whose (new) referent is the Data the cell held, and leaves
\* the length, every other cell, the frames and the older referents unchanged
C24_HeapifyInPlace ==
    [][\A i \in LocalIndices :
          (/\ last'.op = "heapify"
           /\ last'.i = i
           /\ LocalIndex(i) < Len(stack)
           /\ ~IsShared(TaggedSlot(CellAt(stack, LocalIndex(i)))))
          => LET li == LocalIndex(i)
                 new == TaggedSlot(CellAt(stack', li))
             IN  /\ status' = "running"
                 /\ Len(stack') = Len(stack)
                 /\ IsShared(new)
                 /\ new.d.r = Len(refs) + 1
                 /\ Len(refs') = Len(refs) + 1
                 /\ SlotData(refs'[new.d.r]) = TaggedSlot(CellAt(stack, li))
                 /\ \A r \in 1..Len(refs) : refs'[r] = refs[r]
                 /\ \A j \in 0..(Len(stack) - 1) :
                        j # li => CellAt(stack', j) = CellAt(stack, j)
                 /\ frames' = frames]_vars

\* C24 witness: heapify(1) has promoted the second local, which held false
C24_Witness ==
    /\ status = "running"
    /\ last.op = "heapify"
    /\ last.i = 1
    /\ frames = <<0>>
    /\ stack = <<TaggedFrame, TaggedOfSlot(SlotData(Boolean(TRUE))),
                 TaggedOfSlot(SlotData(Heaped(1)))>>
    /\ refs = <<Boolean(FALSE)>>

-----------------------------------------------------------------------------
(* Further claims about vm/tag.rs                                          *)

\* C18: copy() of a cell returns a value equal to the Data the cell was made
\* from (a NaN for a NaN) and changes neither the cell nor any box: nothing
\* is freed, and the cell's box still holds its payload
C18_CopyPeeks ==
    [][tlast'.op = "copy"
          => /\ tstatus' = "running"
             /\ \/ DataEq(out', tagged[tlast'.c].src)
                \/ IsNaN(out') /\ IsNaN(tagged[tlast'.c].src)
             /\ tagged' = tagged
             /\ heap' = heap
             /\ \A k \in DOMAIN heap :
                    heap[k].owner = tlast'.c
                        => (heap[k].frees = 0 /\ heap[k].val = tagged[tlast'.c].src)]_vars

-----------------------------------------------------------------------------
(* Claims about compiler/parse.rs                                          *)

\* C19: parse returns Ok or Err for every token vector; it never panics
C19_ParseNeverAborts ==
    parsed.k # "none" => parsed.k \in {"ok", "err"}

\* what rule j of the list given to first comes to on the tokens
AltResult(j) == Apply(alt.rules[j], tokens, 1)

\* error e is ahead of error w: it starts later, or starts at the same offset
\* and ends further
Ahead(e, w) ==
    \/ e.span.off > w.span.off
    \/ e.span.off = w.span.off /\ SpanEnd(e.span) > SpanEnd(w.span)

\* C25: first returns the Ok of the first rule in list order that parses,
\* whatever the rules after it would do; when every rule fails it returns the
\* error that starts latest, then ends furthest, and of equal ones the one of
\* the earliest rule; with no rule it returns 'Unexpected construct' at the
\* next token, or 'Unexpected EOF' when there is none
C25_FirstAlternation ==
    alt.res.k # "none"
        => LET n == Len(alt.rules)
           IN  /\ \A j \in 1..n :
                      (/\ AltResult(j).k = "ok"
                       /\ \A i \in 1..(j - 1) : AltResult(i).k = "err")
                      => alt.res = AltResult(j)
               /\ (n > 0 /\ \A j \in 1..n : AltResult(j).k = "err")
                      => \E j \in 1..n :
                             /\ alt.res = AltResult(j)
                             /\ \A i \in 1..n : ~Ahead(AltResult(i), AltResult(j))
                             /\ \A i \in 1..(j - 1) : Ahead(AltResult(j), AltResult(i))
               /\ n = 0
                      => alt.res = IF Len(tokens) > 0
                                   THEN Err("Unexpected construct", TokenSpan(1))
                                   ELSE Err("Unexpected EOF while parsing", EmptySpan)

\* C25 witness: on `)` both expr_call and literal fail with errors of the
\* same span, and first has returned the error of expr_call, tried first
C25_Witness ==
    /\ tokens = <<"CloseParen">>
    /\ alt.rules = <<"expr_call", "literal">>
    /\ alt.res = Err("Expected token", TokenSpan(1))
    /\ AltResult(2) = Err("Unexpected token", TokenSpan(1))

\* the expressions parsed one after the other from position p on, up to the
\* first position where expr returns no expression
RECURSIVE ExprRun(_, _)
ExprRun(toks, p) ==
    IF p > Len(toks) THEN <<>>
    ELSE LET e == Apply("expr", toks, p)
         IN  IF e.k # "ok" THEN <<>> ELSE <<e>> \o ExprRun(toks, e.pos)

\* Call(...Call(Call(e1, e2), e3)..., en) of a run e1 ... en, e1 alone for n = 1
RECURSIVE LeftFold(_)
LeftFold(run) ==
    IF Len(run) = 1 THEN run[1].ast
    ELSE LET f == LeftFold(Front(run))
             a == run[Len(run)].ast
         IN  Node("Call", SpanCombine(f.span, a.span), <<f, a>>)

\* C26: where call(tokens) returns and an expression parses at the start, it
\* returns Ok of the left-nested Call of the run of adjacent expressions (the
\* expression itself for a run of one) and the position of the first token
\* at which no expression parses
C26_LeftAssociative ==
    called.k # "none"
        => LET run == ExprRun(tokens, Vaccum(tokens, 1, "Sep"))
               stop == run[Len(run)].pos
           IN  (/\ Len(run) >= 1
                /\ \/ stop > Len(tokens)
                   \/ Apply("expr", tokens, stop).k = "err")
               => called = Ok(LeftFold(run), stop)

\* C26 witness: call on `f x y )` has returned Call(Call(f, x), y) and stopped
\* at the `)`
C26_Witness ==
    /\ tokens = <<"Symbol", "Symbol", "Symbol", "CloseParen">>
    /\ called.k = "ok"
    /\ called.pos = 4
    /\ called.ast.n = "Call"
    /\ called.ast.kids[1].n = "Call"
    /\ called.ast.kids[2].n = "Symbol"

\* the parsing functions, by the names Apply knows them under
RuleNames ==
    {"block", "call", "expr", "assign", "expr_block", "expr_call", "op",
     "literal", "assign_assign", "lambda"}

\* C28: parse comes to a result, Ok, Err or a panic, on every token vector,
\* and every parsing function that returns Ok from a position of the vector
\* returns a later position, at most one past the last token
C28_ParseProgress ==
    parsed.k # "none"
        => /\ parsed.k \in {"ok", "err", "panic"}
           /\ \A p \in 1..(Len(tokens) + 1) : \A rule \in RuleNames :
                  LET r == Apply(rule, tokens, p)
                  IN  /\ r.k \in {"ok", "err", "panic"}
                      /\ r.k = "ok" => p < r.pos /\ r.pos <= Len(tokens) + 1

\* C28 witness: parse has returned Ok on `{ f x }`, having gone through the
\* loops of block and call and the recursion of expr_block into block
C28_Witness ==
    /\ tokens = <<"OpenBracket", "Symbol", "Symbol", "CloseBracket">>
    /\ parsed.k = "ok"
    /\ parsed.pos = 5
    /\ parsed.ast.kids[1].kids[1].n = "Call"

====
